---- MODULE Spec2Model ----
(***************************************************************************)
(* Model of src/app.py: the Flask chat proxy.                              *)
(*                                                                         *)
(* Module-level code reads GOOGLE_API_KEY and builds the model client      *)
(* `llm` once (lines 14-48).  The view function chat() (lines 58-81)       *)
(* answers OPTIONS and POST requests on /chat.  Requests are served by     *)
(* the HTTP server one per thread, so several executions of chat() may be  *)
(* in flight at once; an execution blocks in llm.invoke (line 74).         *)
(*                                                                         *)
(* Python values are records [t, s, n]: t is the type, s the text of a     *)
(* str, n the value of a number.                                           *)
(* Response texts and messages are strings; the description of an upstream *)
(* error (str(e)) is a sequence of characters, so that the substring test  *)
(* of line 79 is computed.                                                 *)
(***************************************************************************)
EXTENDS Integers, Sequences, FiniteSets, TLC

\* Number of requests that can be in flight at the same time.
MaxRequests == 2

Requests == 1..MaxRequests

-----------------------------------------------------------------------------
\* Python values

None == [t |-> "null", s |-> "", n |-> 0]
Str(x) == [t |-> "str", s |-> x, n |-> 0]
Num(k) == [t |-> "num", s |-> "", n |-> k]

\* Python truth value of v, as tested by `not v`.
Truthy(v) ==
    CASE v.t = "null" -> FALSE
      [] v.t = "str"  -> v.s # ""
      [] v.t = "num"  -> v.n # 0

-----------------------------------------------------------------------------
\* Startup (module level, lines 14-48)

\* Values os.environ.get("GOOGLE_API_KEY") can yield: unset, empty, set.
ApiKeys == {None, Str(""), Str("key")}

NoLlm == "None"
Client == "ChatGoogleGenerativeAI"

\* Mutant: the handle is built whenever the key is present, the failure of
\* the constructor is not turned into llm = None.
InitLlm_keyOnly(key, ctorRaises) ==
    IF ~Truthy(key) THEN NoLlm ELSE Client

\* Value of llm after lines 16-48: key is api_key, ctorRaises tells whether
\* ChatGoogleGenerativeAI(...) raised.
InitLlm(key, ctorRaises) ==
    IF ~Truthy(key)
    THEN NoLlm
    ELSE IF ctorRaises THEN NoLlm ELSE Client

-----------------------------------------------------------------------------
\* Requests

Methods == {"POST", "OPTIONS"}

\* Values of the `message` member of a JSON object body.
MessageValues == {Str(""), Str("hi"), None, Num(0), Num(5)}

Body(kind, top, has, message) ==
    [kind |-> kind, top |-> top, has |-> has, message |-> message]

\* Request bodies: a body whose content type is not JSON, a body that is
\* not well-formed JSON, JSON values that are not objects, an object without
\* `message`, and objects with a `message` member.
Bodies ==
    { Body("wrong_mimetype", "none", FALSE, None),
      Body("malformed", "none", FALSE, None),
      Body("json", "null", FALSE, None),
      Body("json", "list", FALSE, None),
      Body("json", "str", FALSE, None),
      Body("json", "dict", FALSE, None) }
    \cup { Body("json", "dict", TRUE, v) : v \in MessageValues }

\* Behaviours of the web framework for a body whose content type is not
\* JSON: recent versions raise UnsupportedMediaType, older ones yield None.
Frameworks == {"raises_415", "yields_none"}

\* Outcome of evaluating `request.json` (line 67) on the body b under the
\* framework fw: the type of the decoded value, or the exception raised.
\* A malformed body raises BadRequest.
RequestJson(b, fw) ==
    CASE b.kind = "wrong_mimetype" ->
            IF fw = "raises_415"
            THEN [exc |-> "UnsupportedMediaType", top |-> "none"]
            ELSE [exc |-> "none", top |-> "null"]
      [] b.kind = "malformed" -> [exc |-> "BadRequest", top |-> "none"]
      [] b.kind = "json" -> [exc |-> "none", top |-> b.top]

\* Result of dict.get("message") on the body b.
DictGet(b) == IF b.has THEN b.message ELSE None

-----------------------------------------------------------------------------
\* Upstream outcomes

\* Texts the upstream can return as response.content.
Texts ==
    { "", "Hello",
      "I apologize, there was an issue processing your request. Please try again." }

Needle ==
    << "R","E","S","O","U","R","C","E","_","E","X","H","A","U","S","T","E","D" >>

\* Descriptions str(e) of the errors the upstream can raise.
Descriptions ==
    { Needle,
      << "4","2","9"," " >> \o Needle \o << "."," ","q","u","o","t","a" >>,
      SubSeq(Needle, 1, Len(Needle) - 1),
      << "r","e","s","o","u","r","c","e","_","e","x","h","a","u","s","t","e","d" >>,
      << "t","i","m","e","o","u","t" >>,
      << >> }

\* Mutant: the test compares the whole description instead of searching it.
Contains_equal(needle, s) == s = needle

\* Python `needle in s` on strings.
Contains(needle, s) ==
    \E i \in 0..(Len(s) - Len(needle)) :
        SubSeq(s, i + 1, i + Len(needle)) = needle

NoOutcome == [kind |-> "none", text |-> "", desc |-> << >>]
Returned(T) == [kind |-> "text", text |-> T, desc |-> << >>]
Raised(d) == [kind |-> "error", text |-> "", desc |-> d]

-----------------------------------------------------------------------------
\* Responses

SetupErrorText == "Server setup error: Gemini API key is missing or invalid."
ProvideMessageText == "Please provide a message."
QuotaText == "I apologize, the free tier usage quota has been exceeded. Please try again later or consider enabling billing for higher limits."
ApologyText == "I apologize, there was an issue processing your request. Please try again."

NoResp == [status |-> 0, form |-> "none", text |-> ""]
\* jsonify({"response": text}), status
Json(text, status) == [status |-> status, form |-> "response", text |-> text]
\* jsonify({}), status
EmptyJson(status) == [status |-> status, form |-> "empty", text |-> ""]

-----------------------------------------------------------------------------
\* State

\* api_key: os.environ.get("GOOGLE_API_KEY"); ctor_raised: whether
\* ChatGoogleGenerativeAI(...) raised at startup; llm: the model client
\* handle; framework: behaviour of the installed web framework; rq: the
\* executions of chat(), one per server thread.
VARIABLES api_key, ctor_raised, llm, framework, rq

vars == << api_key, ctor_raised, llm, framework, rq >>

config == << api_key, ctor_raised, llm, framework >>

Idle ==
    [pc |-> "idle", method |-> "POST", body |-> Body("json", "null", FALSE, None),
     user_input |-> None, sent |-> << >>, up |-> NoOutcome,
     json_read |-> FALSE, resp |-> NoResp, exc |-> "none"]

Init ==
    /\ api_key \in ApiKeys
    /\ ctor_raised \in (IF Truthy(api_key) THEN BOOLEAN ELSE {FALSE})
    /\ llm = InitLlm(api_key, ctor_raised)
    /\ framework \in Frameworks
    /\ rq = [r \in Requests |-> Idle]

\* A request for /chat is dispatched to chat() (line 58).
Receive(r, m, b) ==
    /\ rq[r].pc = "idle"
    /\ rq' = [rq EXCEPT ![r] = [Idle EXCEPT !.pc = "received", !.method = m, !.body = b]]
    /\ UNCHANGED config

Done(q, response) == [q EXCEPT !.pc = "done", !.resp = response]
Escaped(q, e) == [q EXCEPT !.pc = "done", !.exc = e]
\* request.json has been evaluated (line 67).
Read(q) == [q EXCEPT !.json_read = TRUE]

\* Mutant: the message is validated before the handle is tested.
ChatStep_inputFirst(q, handle, j) ==
    IF q.method = "OPTIONS"
    THEN Done(q, EmptyJson(200))
    ELSE IF j.exc = "none" /\ j.top = "dict" /\ ~Truthy(DictGet(q.body))
    THEN Done(Read(q), Json(ProvideMessageText, 400))
    ELSE IF handle = NoLlm
    THEN Done(q, Json(SetupErrorText, 503))
    ELSE IF j.exc # "none"
    THEN Escaped(Read(q), j.exc)
    ELSE IF j.top # "dict"
    THEN Escaped(Read(q), "AttributeError")
    ELSE [Read(q) EXCEPT !.pc = "invoking", !.user_input = DictGet(q.body),
                   !.sent = Append(q.sent, DictGet(q.body))]

\* Mutant: a missing or empty message is forwarded instead of refused.
ChatStep_noInputCheck(q, handle, j) ==
    IF q.method = "OPTIONS"
    THEN Done(q, EmptyJson(200))
    ELSE IF handle = NoLlm
    THEN Done(q, Json(SetupErrorText, 503))
    ELSE IF j.exc # "none"
    THEN Escaped(Read(q), j.exc)
    ELSE IF j.top # "dict"
    THEN Escaped(Read(q), "AttributeError")
    ELSE [Read(q) EXCEPT !.pc = "invoking", !.user_input = DictGet(q.body),
                   !.sent = Append(q.sent, DictGet(q.body))]

\* Mutant: the text handed to the upstream is not the message received.
ChatStep_rewrites(q, handle, j) ==
    IF q.method = "OPTIONS"
    THEN Done(q, EmptyJson(200))
    ELSE IF handle = NoLlm
    THEN Done(q, Json(SetupErrorText, 503))
    ELSE IF j.exc # "none"
    THEN Escaped(Read(q), j.exc)
    ELSE IF j.top # "dict"
    THEN Escaped(Read(q), "AttributeError")
    ELSE IF ~Truthy(DictGet(q.body))
    THEN Done(Read(q), Json(ProvideMessageText, 400))
    ELSE [Read(q) EXCEPT !.pc = "invoking", !.user_input = DictGet(q.body),
                   !.sent = Append(q.sent, Str("Test"))]

\* Mutant: the preflight branch is placed after the handle test.
ChatStep_optionsGated(q, handle, j) ==
    IF handle = NoLlm
    THEN Done(q, Json(SetupErrorText, 503))
    ELSE IF q.method = "OPTIONS"
    THEN Done(q, EmptyJson(200))
    ELSE IF j.exc # "none"
    THEN Escaped(Read(q), j.exc)
    ELSE IF j.top # "dict"
    THEN Escaped(Read(q), "AttributeError")
    ELSE IF ~Truthy(DictGet(q.body))
    THEN Done(Read(q), Json(ProvideMessageText, 400))
    ELSE [Read(q) EXCEPT !.pc = "invoking", !.user_input = DictGet(q.body),
                   !.sent = Append(q.sent, DictGet(q.body))]

\* Lines 61-74 of chat(), up to the call of llm.invoke: q is the request,
\* handle the value of the global llm, j the outcome of request.json.
\* request.json is evaluated at line 67 only; `.get` on a value that is not
\* a dict raises AttributeError, outside the try block.
ChatStep(q, handle, j) ==
    IF q.method = "OPTIONS"
    THEN Done(q, EmptyJson(200))
    ELSE IF handle = NoLlm
    THEN Done(q, Json(SetupErrorText, 503))
    ELSE IF j.exc # "none"
    THEN Escaped(Read(q), j.exc)
    ELSE IF j.top # "dict"
    THEN Escaped(Read(q), "AttributeError")
    ELSE IF ~Truthy(DictGet(q.body))
    THEN Done(Read(q), Json(ProvideMessageText, 400))
    ELSE [Read(q) EXCEPT !.pc = "invoking", !.user_input = DictGet(q.body),
                   !.sent = Append(q.sent, DictGet(q.body))]

\* chat() runs from its entry to a return, an escaping exception, or the
\* blocking call of the upstream.
Chat(r) ==
    /\ rq[r].pc = "received"
    /\ rq' = [rq EXCEPT ![r] = ChatStep(rq[r], llm, RequestJson(rq[r].body, framework))]
    /\ UNCHANGED config

\* Line 75: the upstream returned a response whose content is T.
OnReturn(q, T) ==
    Done([q EXCEPT !.up = Returned(T)], Json(T, 200))

InvokeReturn(r, T) ==
    /\ rq[r].pc = "invoking"
    /\ rq' = [rq EXCEPT ![r] = OnReturn(rq[r], T)]
    /\ UNCHANGED config

\* Mutant: the call is repeated once after a failure.
OnRaise_retry(q, d) ==
    IF Len(q.sent) < 2
    THEN [q EXCEPT !.sent = Append(q.sent, q.user_input)]
    ELSE Done([q EXCEPT !.up = Raised(d)],
              IF Contains(Needle, d) THEN Json(QuotaText, 500)
                                     ELSE Json(ApologyText, 500))

\* Mutant: only quota errors are caught, other errors escape.
OnRaise_quotaOnly(q, d) ==
    IF Contains(Needle, d)
    THEN Done([q EXCEPT !.up = Raised(d)], Json(QuotaText, 500))
    ELSE Escaped([q EXCEPT !.up = Raised(d)], "Exception")

\* Lines 76-81: llm.invoke raised an error whose description is d.
OnRaise(q, d) ==
    Done([q EXCEPT !.up = Raised(d)],
         IF Contains(Needle, d) THEN Json(QuotaText, 500)
                                ELSE Json(ApologyText, 500))

\* Mutant: a failed call drops the model client.
InvokeRaise_dropsClient(r, d) ==
    /\ rq[r].pc = "invoking"
    /\ rq' = [rq EXCEPT ![r] = OnRaise(rq[r], d)]
    /\ llm' = NoLlm
    /\ UNCHANGED << api_key, ctor_raised, framework >>

InvokeRaise(r, d) ==
    /\ rq[r].pc = "invoking"
    /\ rq' = [rq EXCEPT ![r] = OnRaise(rq[r], d)]
    /\ UNCHANGED config

\* The server sends the outcome of chat() to the client; the thread is free.
Deliver(r) ==
    /\ rq[r].pc = "done"
    /\ rq' = [rq EXCEPT ![r] = Idle]
    /\ UNCHANGED config

Next ==
    \/ \E r \in Requests, m \in Methods, b \in Bodies : Receive(r, m, b)
    \/ \E r \in Requests : Chat(r)
    \/ \E r \in Requests, T \in Texts : InvokeReturn(r, T)
    \/ \E r \in Requests, d \in Descriptions : InvokeRaise(r, d)
    \/ \E r \in Requests : Deliver(r)

Spec == Init /\ [][Next]_vars

TypeOK ==
    /\ api_key \in ApiKeys
    /\ llm \in {NoLlm, Client}
    /\ ctor_raised \in BOOLEAN
    /\ framework \in Frameworks
    /\ \A r \in Requests :
          /\ rq[r].pc \in {"idle", "received", "invoking", "done"}
          /\ rq[r].method \in Methods
          /\ rq[r].body \in Bodies

-----------------------------------------------------------------------------
\* Properties

IsPost(q) == q.pc = "done" /\ q.method = "POST"

\* The body is a JSON object whose `message` is missing or the empty string.
MissingOrEmpty(b) ==
    /\ b.kind = "json"
    /\ b.top = "dict"
    /\ (~b.has \/ b.message = Str(""))

\* The body is a JSON object whose `message` is a non-empty value.
NonEmptyMessage(b) ==
    /\ b.kind = "json"
    /\ b.top = "dict"
    /\ b.has
    /\ Truthy(b.message)

\* s mentions needle: needle is a prefix of s or is mentioned by the tail
\* of s.
RECURSIVE Mentions(_, _)
Mentions(needle, s) ==
    IF Len(s) < Len(needle)
    THEN FALSE
    ELSE \/ \A k \in 1..Len(needle) : s[k] = needle[k]
         \/ Mentions(needle, Tail(s))

\* C1: with the model client handle unset, every finished POST /chat has
\* status 503 and the fixed configuration-error body whatever its body was,
\* and no execution of chat() ever calls the upstream or reads the body.
C1_NoClient503 ==
    llm = NoLlm =>
        \A r \in Requests :
            /\ rq[r].sent = << >>
            /\ rq[r].pc # "invoking"
            /\ IsPost(rq[r]) =>
                  /\ rq[r].resp = Json(SetupErrorText, 503)
                  /\ rq[r].exc = "none"

C1_Witness ==
    \E r \in Requests :
        /\ ~Truthy(api_key)
        /\ IsPost(rq[r])
        /\ rq[r].body.has /\ rq[r].body.message = Str("hi")
        /\ rq[r].resp.status = 503

\* C2 as stated: with the credential present, a finished POST /chat whose
\* JSON body has a missing or empty message has status 400 and the fixed
\* prompt-for-input body, and did not call the upstream.
C2_Original ==
    \A r \in Requests :
        (Truthy(api_key) /\ IsPost(rq[r]) /\ MissingOrEmpty(rq[r].body)) =>
            /\ rq[r].resp = Json(ProvideMessageText, 400)
            /\ rq[r].sent = << >>

\* C2 amended: with the model client handle set, a finished POST /chat whose
\* JSON body has a missing or empty message has status 400 and the fixed
\* prompt-for-input body, and did not call the upstream.
C2_EmptyMessage400 ==
    \A r \in Requests :
        (llm = Client /\ IsPost(rq[r]) /\ MissingOrEmpty(rq[r].body)) =>
            /\ rq[r].resp = Json(ProvideMessageText, 400)
            /\ rq[r].exc = "none"
            /\ rq[r].sent = << >>

C2_Witness ==
    \E r1, r2 \in Requests :
        /\ llm = Client
        /\ IsPost(rq[r1]) /\ ~rq[r1].body.has /\ rq[r1].body.top = "dict"
        /\ rq[r1].resp.status = 400
        /\ IsPost(rq[r2]) /\ rq[r2].body.has /\ rq[r2].body.message = Str("")
        /\ rq[r2].resp.status = 400

\* C3: when the upstream returned the text T, the upstream was handed the
\* request's message as received, once, and the response is {"response": T}
\* with status 200; while the call is pending the same message was handed.
C3_Success200 ==
    \A r \in Requests :
        /\ rq[r].pc = "invoking" => rq[r].sent = << rq[r].body.message >>
        /\ (rq[r].pc = "done" /\ rq[r].up.kind = "text") =>
              /\ NonEmptyMessage(rq[r].body)
              /\ rq[r].sent = << rq[r].body.message >>
              /\ rq[r].resp = Json(rq[r].up.text, 200)
              /\ rq[r].exc = "none"

C3_Witness ==
    \E r \in Requests :
        /\ rq[r].pc = "done"
        /\ rq[r].body.message = Str("hi")
        /\ rq[r].up = Returned("Hello")
        /\ rq[r].resp = Json("Hello", 200)

\* C4: when the upstream raised an error whose description mentions
\* RESOURCE_EXHAUSTED, the response is the quota message with status 500.
C4_Quota500 ==
    \A r \in Requests :
        (rq[r].pc = "done" /\ rq[r].up.kind = "error"
            /\ Mentions(Needle, rq[r].up.desc)) =>
            /\ rq[r].resp = Json(QuotaText, 500)
            /\ rq[r].resp.text # ApologyText
            /\ rq[r].exc = "none"

C4_Witness ==
    \E r \in Requests :
        /\ rq[r].pc = "done"
        /\ rq[r].up.kind = "error"
        /\ rq[r].up.desc # Needle
        /\ Mentions(Needle, rq[r].up.desc)
        /\ rq[r].resp.text = QuotaText

\* C5: when the upstream raised an error whose description does not mention
\* RESOURCE_EXHAUSTED, the response is the generic apology with status 500;
\* whatever the upstream raised, chat() returns a 500 response and no
\* exception escapes it.
C5_Generic500 ==
    \A r \in Requests :
        (rq[r].pc = "done" /\ rq[r].up.kind = "error") =>
            /\ rq[r].exc = "none"
            /\ rq[r].resp.status = 500
            /\ rq[r].resp.form = "response"
            /\ ~Mentions(Needle, rq[r].up.desc) =>
                  rq[r].resp = Json(ApologyText, 500)

C5_Witness ==
    \E r \in Requests :
        /\ rq[r].pc = "done"
        /\ rq[r].up.kind = "error"
        /\ rq[r].up.desc = SubSeq(Needle, 1, Len(Needle) - 1)
        /\ rq[r].resp = Json(ApologyText, 500)

\* C6: a finished OPTIONS /chat has status 200 and an empty body, with the
\* handle set or unset, and neither called the upstream nor read the body.
C6_Options200 ==
    \A r \in Requests :
        rq[r].method = "OPTIONS" =>
            /\ rq[r].sent = << >>
            /\ ~rq[r].json_read
            /\ rq[r].pc # "invoking"
            /\ rq[r].pc = "done" =>
                  /\ rq[r].resp = EmptyJson(200)
                  /\ rq[r].exc = "none"

C6_Witness ==
    \E r1, r2 \in Requests :
        /\ llm = NoLlm
        /\ rq[r1].pc = "done" /\ rq[r1].method = "OPTIONS"
        /\ rq[r1].body.kind = "malformed"
        /\ rq[r1].resp.status = 200
        /\ rq[r2].pc = "done" /\ rq[r2].method = "OPTIONS"
        /\ rq[r2].body.message = Str("hi")

\* C7 as stated: every finished POST /chat, whatever the configuration, the
\* body and the upstream outcome, ended with a response {"response": text}
\* of status 200, 400, 500 or 503, and with no exception escaping chat().
C7_AlwaysJsonResponse ==
    \A r \in Requests :
        IsPost(rq[r]) =>
            /\ rq[r].exc = "none"
            /\ rq[r].resp.form = "response"
            /\ rq[r].resp.status \in {200, 400, 500, 503}

\* C8 as stated: a POST /chat calls the upstream at most once; a finished
\* one called it exactly once when the credential is present and the message
\* is non-empty, and not at all otherwise.
C8_Original ==
    \A r \in Requests :
        /\ Len(rq[r].sent) <= 1
        /\ IsPost(rq[r]) =>
              Len(rq[r].sent) =
                  IF Truthy(api_key) /\ NonEmptyMessage(rq[r].body) THEN 1 ELSE 0

\* C8 amended: a POST /chat calls the upstream at most once; a finished one
\* called it exactly once when the model client handle is set and the
\* message is non-empty, and not at all otherwise; a failure of the call
\* finishes the request.
C8_AtMostOneCall ==
    \A r \in Requests :
        /\ Len(rq[r].sent) <= 1
        /\ rq[r].pc = "invoking" => Len(rq[r].sent) = 1 /\ rq[r].up.kind = "none"
        /\ rq[r].up.kind = "error" => rq[r].pc = "done"
        /\ IsPost(rq[r]) =>
              Len(rq[r].sent) =
                  IF llm = Client /\ NonEmptyMessage(rq[r].body) THEN 1 ELSE 0

C8_Witness ==
    \E r1, r2 \in Requests :
        /\ IsPost(rq[r1]) /\ rq[r1].up.kind = "error" /\ Len(rq[r1].sent) = 1
        /\ IsPost(rq[r2]) /\ rq[r2].body.kind = "json" /\ Len(rq[r2].sent) = 0

\* Two finished requests with the same method, the same body and the same
\* upstream outcome have the same result.
SameResult ==
    \A r1, r2 \in Requests :
        (/\ rq[r1].pc = "done" /\ rq[r2].pc = "done"
         /\ rq[r1].method = rq[r2].method
         /\ rq[r1].body = rq[r2].body
         /\ rq[r1].up = rq[r2].up) =>
            /\ rq[r1].resp = rq[r2].resp
            /\ rq[r1].exc = rq[r2].exc

\* C9: no step of request handling changes the credential or the model
\* client handle, and the result of a request is determined by the startup
\* configuration, its own method and body and its own upstream outcome.
C9_ConfigFrozen ==
    /\ [][api_key' = api_key /\ llm' = llm]_vars
    /\ []SameResult

C9_Witness ==
    \E r1, r2 \in Requests :
        /\ llm = Client
        /\ IsPost(rq[r1]) /\ rq[r1].up.kind = "error"
        /\ IsPost(rq[r2]) /\ rq[r2].up.kind = "text"

\* C10: when the credential is present and building the model client raised
\* at startup, the handle is unset and every finished POST /chat has the
\* 503 configuration-error response, a request with an empty message too.
C10_GatedOnHandle ==
    (Truthy(api_key) /\ ctor_raised) =>
        /\ llm = NoLlm
        /\ \A r \in Requests :
              /\ rq[r].sent = << >>
              /\ IsPost(rq[r]) => rq[r].resp = Json(SetupErrorText, 503)

C10_Witness ==
    \E r \in Requests :
        /\ Truthy(api_key) /\ ctor_raised
        /\ IsPost(rq[r])
        /\ rq[r].body.has /\ rq[r].body.message = Str("")
        /\ rq[r].resp = Json(SetupErrorText, 503)

====
